---------------------------- MODULE Spec2Model ----------------------------
(***************************************************************************)
(* A model of daaku/ctxmux (src/ctxmux.go): a Mux that wraps every handler *)
(* registered on an httprouter.Router so that each request gets a context  *)
(* (from the optional context maker, extended with the path parameters),   *)
(* errors returned by the handler go to the error handler and panics go to *)
(* the panic handler.                                                      *)
(*                                                                         *)
(* The callbacks supplied by the application (context maker, handlers,     *)
(* error handler, panic handler) are arbitrary Go functions: each call     *)
(* picks its outcome (return value or panic) nondeterministically.         *)
(*                                                                         *)
(* Specifications: Spec (New with any options, registrations, one request  *)
(* at a time), SpecRedirect (the same with trailing-slash redirection),    *)
(* SpecPlain (routes served by adapted plain handlers), SpecConc (several  *)
(* requests interleaved on one mux), SpecCtx (WithParams and              *)
(* ContextParams on contexts an application derives) and SpecPipe          *)
(* (ContextPipeChain of the earlier API, src/unnamed/part_000).            *)
(***************************************************************************)
EXTENDS Integers, Sequences, FiniteSets, TLC

VARIABLES
    phase,         \* "new": New is applying options; "ready": New returned the
                   \* mux; "failed": New returned nil and an error
    options,       \* New's parameter: the options it was called with
    applied,       \* how many of them New's loop has applied
    newErr,        \* the error New returned
    contextMaker,  \* Mux.contextMaker
    errorHandler,  \* Mux.errorHandler
    panicHandler,  \* Mux.panicHandler
    notFound,      \* Mux.r.NotFound, as set by MuxNotFoundHandler
    redirectTrailingSlash,  \* Mux.r.RedirectTrailingSlash
    r,             \* Mux.r: the routes registered on the router
    registered,    \* what the registration calls made so far asked for
    req,           \* the requests being served, one dispatch each
    cx,            \* a context an application derives step by step
    cxParent,      \* the context cx was derived from
    cxLast,        \* the derivation that gave cx
    pipe           \* one call of a ContextPipe built by ContextPipeChain

\* New's state, the mux's configuration, its routes, the derived context
newVars == <<phase, options, applied, newErr>>
cfgVars == <<contextMaker, errorHandler, panicHandler, notFound, redirectTrailingSlash>>
routeVars == <<r, registered>>
cxVars == <<cx, cxParent, cxLast, pipe>>

vars == <<newVars, cfgVars, routeVars, req, cxVars>>

----------------------------------------------------------------------------
(* Bounds *)

\* the number of registrations made on one mux
MaxRoutes == 1

\* the number of options given to New
MaxOptions == 4

\* the number of contexts an application derives one from the other
MaxChain == 2

\* the number of parameters in one httprouter.Params
MaxParams == 2

\* the number of requests served at the same time
NumReqs == 2

\* the number of pipes given to ContextPipeChain
MaxPipes == 3

----------------------------------------------------------------------------
(* Go values *)

\* a nil func value, a nil error, recover() outside a panic
Nil == "nil"

\* the error values the callbacks return
Errs == {"e1", "e2"}

\* the (non-nil) payloads the context maker and the handlers panic with
PanicVals == {"p1", "p2"}

\* the payloads the error handler and the panic handler panic with
ErrorHandlerPanics == {"p3"}
PanicHandlerPanics == {"p4"}

\* the payload of the runtime panic raised by calling a nil func value
NilFuncPanic == "nil func call"

\* the application's handlers, one func value for each registration (the
\* i-th registration registers the i-th), and its other callbacks
HandlerNames == <<"h1", "h2", "h3">>

\* a func value of type Handler written by the application
Func(name) == [adapter |-> "none", name |-> name]

\* HTTPHandler(handler) and HTTPHandlerFunc(handler): the Handler that calls
\* the plain handler named
HTTPHandler(handler) == [adapter |-> "HTTPHandler", name |-> handler]
HTTPHandlerFunc(handler) == [adapter |-> "HTTPHandlerFunc", name |-> handler]

\* the nil func value of type Handler
NoHandler == [adapter |-> "none", name |-> Nil]

Handlers == {Func(HandlerNames[i]) : i \in 1..Len(HandlerNames)}
TheContextMaker == "cm"
TheErrorHandler == "eh"
ThePanicHandler == "ph"
TheNotFound == Func("nf")

----------------------------------------------------------------------------
(* context.Context: a chain of key/value bindings, newest last.  The nil   *)
(* interface value (the zero value of `var ctx context.Context`) is not a  *)
(* context.                                                                *)

NilCtx == [isNil |-> TRUE, chain |-> <<>>]

\* context.Background()
Background == [isNil |-> FALSE, chain |-> <<>>]

\* Keys are interface values: they are equal when both the dynamic type and
\* the value are equal.
\* a faulty key of the plain type int, which an application can build too
contextParamsKeyInt == [type |-> "int", v |-> 0]

\* var contextParamsKey = contextParamsKeyT(0)
contextParamsKey == [type |-> "contextParamsKeyT", v |-> 0]

\* the keys an application can build: it cannot name contextParamsKeyT
CallerKeys == {[type |-> "int", v |-> 0], [type |-> "int", v |-> 1]}

\* httprouter.Params: a slice of Param{Key, Value}; the nil slice and the
\* empty slice are different values
Params(items) == [isNil |-> FALSE, items |-> items]
NilParams == [isNil |-> TRUE, items |-> <<>>]

\* the value stored under a key: a Params, or an application value
ParamsVal(p) == [type |-> "Params", params |-> p, v |-> 0]
IntVal(n) == [type |-> "int", params |-> NilParams, v |-> n]
NoVal == [type |-> "nil", params |-> NilParams, v |-> 0]

\* context.WithValue(ctx, key, val)
WithValue(ctx, key, val) ==
    [isNil |-> FALSE, chain |-> Append(ctx.chain, [key |-> key, val |-> val])]

\* ctx.Value(key): the newest binding of key, nil when there is none
RECURSIVE ChainValue(_, _)
ChainValue(chain, key) ==
    IF chain = <<>> THEN NoVal
    ELSE IF chain[Len(chain)].key = key THEN chain[Len(chain)].val
    ELSE ChainValue(SubSeq(chain, 1, Len(chain) - 1), key)

Value(ctx, key) == ChainValue(ctx.chain, key)

\* a faulty WithParams that returns its parent unchanged
WithParamsDropped(ctx, p) == ctx

WithParams(ctx, p) == WithValue(ctx, contextParamsKey, ParamsVal(p))

\* a faulty ContextParams that takes parameters of length 0 for none
ContextParamsNonEmpty(ctx) ==
    LET v == Value(ctx, contextParamsKey)
    IN  IF v.type = "Params" /\ v.params.items # <<>> THEN v.params ELSE NilParams

\* p, _ := ctx.Value(contextParamsKey).(httprouter.Params)
ContextParams(ctx) ==
    LET v == Value(ctx, contextParamsKey)
    IN  IF v.type = "Params" THEN v.params ELSE NilParams


----------------------------------------------------------------------------
(* The router (github.com/julienschmidt/httprouter), as far as the mux     *)
(* uses it: a table of (method, path pattern) -> httprouter.Handle and a   *)
(* lookup that yields the handle and the path parameters of a request.     *)

\* the verbs that have a registration method of their own on Mux
Verbs == {"HEAD", "GET", "POST", "PUT", "DELETE", "PATCH"}

\* a verb that only Mux.Handler can register
CustomMethods == {"FOO"}

Methods == Verbs \cup CustomMethods

\* the path patterns registered and the paths requested
Patterns == {"/", "/items/:id"}
Paths == {"/", "/items/42", "/missing"}

\* whether the router matches a path against a pattern
Matches(pattern, path) ==
    \/ pattern = "/" /\ path = "/"
    \/ pattern = "/items/:id" /\ path = "/items/42"
    \/ pattern = "/foo/" /\ path = "/foo/"

\* the path with its trailing slash stripped, or with one added
TrailingSlashVariant(path) ==
    CASE path = "/items/42/" -> "/items/42"
      [] path = "/items/42" -> "/items/42/"
      [] path = "/foo/" -> "/foo"
      [] path = "/foo" -> "/foo/"
      [] path = "/missing" -> "/missing/"
      [] OTHER -> path

\* http.StatusMovedPermanently
StatusMovedPermanently == 301

\* the parameters the router extracts for a matching pattern
PathParams(pattern, path) ==
    IF pattern = "/items/:id" /\ path = "/items/42"
    THEN Params(<<[Key |-> "id", Value |-> "42"]>>)
    ELSE NilParams

\* the httprouter.Handle built by Mux.wrap: a closure over the mux and the
\* handler; what it does when called is the actions CallContextMaker ..
\* Deferred below
\* the fields of the mux that the wrapper reads, as they are now
Callbacks ==
    [contextMaker |-> contextMaker, errorHandler |-> errorHandler,
     panicHandler |-> panicHandler]

NoCallbacks == [contextMaker |-> Nil, errorHandler |-> Nil, panicHandler |-> Nil]

\* the receiver m held by the closure: the pointer to the mux, so that the
\* closure reads the mux as it is when the closure runs
ByPointer == [byRef |-> TRUE, copy |-> NoCallbacks]

\* a faulty wrap with a value receiver: the closure holds a copy of the mux
\* made when wrap was called
wrapValueReceiver(handler) ==
    [fn |-> "wrap", handler |-> handler, m |-> [byRef |-> FALSE, copy |-> Callbacks]]

wrap(handler) == [fn |-> "wrap", handler |-> handler, m |-> ByPointer]

\* the nil func value of type httprouter.Handle / http.HandlerFunc
NilHandle == [fn |-> "nil", handler |-> NoHandler, m |-> ByPointer]

Registered(rt, method, path) ==
    \E e \in rt : e.method = method /\ e.path = path

\* httprouter.Router.Handle(method, path, handle)
routerHandle(rt, method, path, handle) ==
    rt \cup {[method |-> method, path |-> path, handle |-> handle]}

\* the routes of rt that serve a request
Lookup(rt, method, path) ==
    {e \in rt : e.method = method /\ Matches(e.path, path)}

\* the router recommends the trailing-slash redirect: no route serves the
\* request, and one serves the other variant of its path
Tsr(rt, method, path) ==
    /\ Lookup(rt, method, path) = {}
    /\ path # "/"
    /\ Lookup(rt, method, TrailingSlashVariant(path)) # {}

----------------------------------------------------------------------------
(* Mux: the registration surface *)

Handler(rt, method, path, handler) == routerHandle(rt, method, path, wrap(handler))

HEAD(rt, path, handler) == routerHandle(rt, "HEAD", path, wrap(handler))

\* a faulty GET that registers with the router's POST
GETasPOST(rt, path, handler) == routerHandle(rt, "POST", path, wrap(handler))

GET(rt, path, handler) == routerHandle(rt, "GET", path, wrap(handler))

POST(rt, path, handler) == routerHandle(rt, "POST", path, wrap(handler))

PUT(rt, path, handler) == routerHandle(rt, "PUT", path, wrap(handler))

DELETE(rt, path, handler) == routerHandle(rt, "DELETE", path, wrap(handler))

PATCH(rt, path, handler) == routerHandle(rt, "PATCH", path, wrap(handler))

\* the registration method of Mux named after a verb
VerbMethod(verb, rt, path, handler) ==
    CASE verb = "HEAD" -> HEAD(rt, path, handler)
      [] verb = "GET" -> GET(rt, path, handler)
      [] verb = "POST" -> POST(rt, path, handler)
      [] verb = "PUT" -> PUT(rt, path, handler)
      [] verb = "DELETE" -> DELETE(rt, path, handler)
      [] verb = "PATCH" -> PATCH(rt, path, handler)

----------------------------------------------------------------------------
(* The state of one request *)

\* the request slot of Spec, SpecRedirect and SpecPlain: dispatch writes no
\* state of the mux, so one request shows every behaviour of a sequence of
\* requests; SpecConc has ConcReqs
Reqs == {"q1"}

\* the method of the request and the pattern it matched
NoRoute == [method |-> "", path |-> ""]
NoPanic == [origin |-> "none", v |-> Nil]

IdleReq ==
    [pc |-> "idle",          \* idle, makeContext, handler, errorHandler, deferred, done
     route |-> NoRoute,      \* the route the router matched
     handler |-> NoHandler,  \* the handler closed over by the wrapper called
     m |-> ByPointer,        \* the receiver m closed over by the wrapper called
     p |-> NilParams,        \* the wrapper's parameter p
     ctx |-> NilCtx,         \* the wrapper's variable ctx
     err |-> Nil,            \* the wrapper's variable err
     panic |-> NoPanic,      \* the panic unwinding the wrapper, if any
     recovered |-> NoPanic,  \* the panic the deferred func recovered, if any
     calls |-> <<>>,         \* the callbacks called so far, with their arguments
     body |-> <<>>,          \* what has been written to the response
     code |-> 0,             \* the status of the router's redirect, if any
     location |-> "",        \* its Location header
     outcome |-> "none"]     \* how the wrapper ended: returned, panicked

\* no ContextPipe built by ContextPipeChain is being called
NoChain ==
    [pc |-> "none", pipes |-> <<>>, input |-> NilCtx, i |-> 0, ctx |-> NilCtx,
     calls |-> <<>>, res |-> [ctx |-> NilCtx, err |-> Nil]]

\* no derivation of a context has been made
NoDerivation == [op |-> "none", key |-> contextParamsKey, val |-> NoVal]

\* one call of a callback: the context and the error or payload passed to
\* it, and the context and error it returned (the payload when it panicked
\* instead of returning)
Call(fn, ctx, arg, rctx, ret) ==
    [fn |-> fn, ctx |-> ctx, arg |-> arg, rctx |-> rctx, ret |-> ret]

\* an option of the package, which returns nil, or an option of the
\* application that returns an error
Option(kind) == [kind |-> kind, err |-> Nil]
FailingOption(err) == [kind |-> "custom", err |-> err]

\* the options New is given in Spec
OptionKinds ==
    {Option("MuxContextMaker"), Option("MuxErrorHandler"), Option("MuxPanicHandler"),
     Option("MuxNotFoundHandler")} \cup {FailingOption(e) : e \in Errs}

\* the sequences of at most MaxOptions options
OptionLists(kinds) == UNION {[1..n -> kinds] : n \in 0..MaxOptions}

\* `var m Mux` in New, called with some options; no context is derived
InitWith(kinds) ==
    /\ phase = "new"
    /\ options \in OptionLists(kinds)
    /\ applied = 0
    /\ newErr = Nil
    /\ contextMaker = Nil
    /\ errorHandler = Nil
    /\ panicHandler = Nil
    /\ notFound = NilHandle
    /\ redirectTrailingSlash = FALSE
    /\ r = {}
    /\ registered = {}
    /\ cx = NilCtx
    /\ cxParent = NilCtx
    /\ cxLast = NoDerivation
    /\ pipe = NoChain

Init ==
    /\ InitWith(OptionKinds)
    /\ req = [q \in Reqs |-> IdleReq]

----------------------------------------------------------------------------
(* New and the options: New's loop applies the options in turn.            *)

\* the loop of New is at an option of this kind
AtOption(kind) ==
    /\ phase = "new"
    /\ applied < Len(options)
    /\ options[applied + 1].kind = kind

\* MuxContextMaker(f) applied by New
MuxContextMaker ==
    /\ AtOption("MuxContextMaker")
    /\ contextMaker' = TheContextMaker
    /\ applied' = applied + 1
    /\ UNCHANGED <<phase, options, newErr, errorHandler, panicHandler, notFound,
                   redirectTrailingSlash, routeVars, req, cxVars>>

\* MuxErrorHandler(handler) applied by New
MuxErrorHandler ==
    /\ AtOption("MuxErrorHandler")
    /\ errorHandler' = TheErrorHandler
    /\ applied' = applied + 1
    /\ UNCHANGED <<phase, options, newErr, contextMaker, panicHandler, notFound,
                   redirectTrailingSlash, routeVars, req, cxVars>>

\* MuxPanicHandler(handler) applied by New
MuxPanicHandler ==
    /\ AtOption("MuxPanicHandler")
    /\ panicHandler' = ThePanicHandler
    /\ applied' = applied + 1
    /\ UNCHANGED <<phase, options, newErr, contextMaker, errorHandler, notFound,
                   redirectTrailingSlash, routeVars, req, cxVars>>

\* MuxNotFoundHandler(handler) applied by New
MuxNotFoundHandler ==
    /\ AtOption("MuxNotFoundHandler")
    /\ notFound' = wrap(TheNotFound)
    /\ applied' = applied + 1
    /\ UNCHANGED <<phase, options, newErr, contextMaker, errorHandler, panicHandler,
                   redirectTrailingSlash, routeVars, req, cxVars>>

\* a faulty MuxRedirectTrailingSlash that leaves the router as it is
MuxRedirectTrailingSlashNoop ==
    /\ AtOption("MuxRedirectTrailingSlash")
    /\ applied' = applied + 1
    /\ UNCHANGED <<phase, options, newErr, cfgVars, routeVars, req, cxVars>>

\* MuxRedirectTrailingSlash applied by New
MuxRedirectTrailingSlash ==
    /\ AtOption("MuxRedirectTrailingSlash")
    /\ redirectTrailingSlash' = TRUE
    /\ applied' = applied + 1
    /\ UNCHANGED <<phase, options, newErr, contextMaker, errorHandler, panicHandler,
                   notFound, routeVars, req, cxVars>>

\* if err := o(&m); err != nil { return nil, err }
OptionFails ==
    /\ AtOption("custom")
    /\ phase' = "failed"
    /\ newErr' = options[applied + 1].err
    /\ UNCHANGED <<options, applied, cfgVars, routeVars, req, cxVars>>

\* a faulty New that returns the mux before the loop is over
NewReturnsEarly ==
    /\ phase = "new"
    /\ phase' = "ready"
    /\ options' = <<>>
    /\ applied' = 0
    /\ UNCHANGED <<newErr, cfgVars, routeVars, req, cxVars>>

\* return &m, nil: the loop is over; New's parameter is gone with its frame
New ==
    /\ phase = "new"
    /\ applied = Len(options)
    /\ phase' = "ready"
    /\ options' = <<>>
    /\ applied' = 0
    /\ UNCHANGED <<newErr, cfgVars, routeVars, req, cxVars>>

----------------------------------------------------------------------------
(* Registration.  httprouter panics when a (method, path) is registered    *)
(* twice, so a program registers each at most once; registration happens   *)
(* before the mux serves.                                                  *)

\* what a registration call asks for: handler serves method at path
Registration(method, path, handler) ==
    [method |-> method, path |-> path, handler |-> handler]

CanRegister(method, path, handler) ==
    /\ phase = "ready"
    /\ Cardinality(registered) < Len(HandlerNames)
    /\ handler.name = HandlerNames[Cardinality(registered) + 1]
    /\ \A q \in Reqs : req[q].pc = "idle"
    /\ Cardinality(r) < MaxRoutes
    /\ ~Registered(r, method, path)
    /\ ~Registered(registered, method, path)

\* m.Handler(method, path, handler)
RegisterHandler(method, path, handler) ==
    /\ CanRegister(method, path, handler)
    /\ r' = Handler(r, method, path, handler)
    /\ registered' = registered \cup {Registration(method, path, handler)}
    /\ UNCHANGED <<newVars, cfgVars, req, cxVars>>

\* m.HEAD(path, handler), m.GET(path, handler), ...
RegisterVerb(verb, path, handler) ==
    /\ CanRegister(verb, path, handler)
    /\ r' = VerbMethod(verb, r, path, handler)
    /\ registered' = registered \cup {Registration(verb, path, handler)}
    /\ UNCHANGED <<newVars, cfgVars, req, cxVars>>

----------------------------------------------------------------------------
(* Serving one request: Mux.ServeHTTP hands it to the router, which calls  *)
(* the wrapper of the matching route.  The wrapper is followed from one    *)
(* call of an application callback to the next.                            *)

\* what the callbacks can do
CMContexts == {Background, WithValue(Background, [type |-> "int", v |-> 1], IntVal(2))}

\* the context maker returns (ctx, nil), or an error with any context or nil
CMReturns ==
    {[ctx |-> c, err |-> Nil] : c \in CMContexts}
        \cup {[ctx |-> c, err |-> e] : c \in CMContexts \cup {NilCtx}, e \in Errs}

\* the result of makeContext when there is no context maker to call
NoReturn == [ctx |-> NilCtx, err |-> Nil]

\* a handler returns nil or an error
HandlerReturns == {Nil} \cup Errs

\* the mux the wrapper of request q reads: m.contextMaker, m.errorHandler
\* and m.panicHandler are read through the receiver the closure holds
ReceiverOf(q) == IF req[q].m.byRef THEN Callbacks ELSE req[q].m.copy

\* a faulty makeContext that passes on the context returned with an error
makeContextKeepsCtx(m, out) ==
    IF m.contextMaker # Nil
    THEN [ctx |-> out.ctx, err |-> out.err]
    ELSE [ctx |-> Background, err |-> Nil]

\* a faulty makeContext that loses the context maker's error
makeContextDropsErr(m, out) ==
    IF m.contextMaker # Nil
    THEN IF out.err # Nil
         THEN [ctx |-> Background, err |-> Nil]
         ELSE [ctx |-> out.ctx, err |-> Nil]
    ELSE [ctx |-> Background, err |-> Nil]

\* Mux.makeContext, given what m.contextMaker(r) returned
makeContext(m, out) ==
    IF m.contextMaker # Nil
    THEN IF out.err # Nil
         THEN [ctx |-> Background, err |-> out.err]
         ELSE [ctx |-> out.ctx, err |-> Nil]
    ELSE [ctx |-> Background, err |-> Nil]

\* m.r.ServeHTTP(w, req): the matching route's wrapper is called with the
\* parameters; without a match the router redirects to the other variant
\* of the path when RedirectTrailingSlash is set and that variant has a
\* route; otherwise the NotFound func calls its wrapper with nil
\* parameters, and without a NotFound func the router replies 404
ServeHTTP(q, method, path) ==
    /\ phase = "ready"
    /\ req[q].pc = "idle"
    /\ LET found == Lookup(r, method, path)
       IN  IF found # {}
           THEN \E e \in found :
                    req' = [req EXCEPT ![q] =
                               [@ EXCEPT !.pc = "makeContext",
                                         !.route = [method |-> method, path |-> e.path],
                                         !.handler = e.handle.handler,
                                         !.m = e.handle.m,
                                         !.p = PathParams(e.path, path)]]
           ELSE IF redirectTrailingSlash /\ Tsr(r, method, path)
           THEN req' = [req EXCEPT ![q] =
                           [@ EXCEPT !.pc = "done",
                                     !.code = StatusMovedPermanently,
                                     !.location = TrailingSlashVariant(path),
                                     !.outcome = "returned"]]
           ELSE IF notFound # NilHandle
           THEN req' = [req EXCEPT ![q] =
                           [@ EXCEPT !.pc = "makeContext",
                                     !.handler = notFound.handler,
                                     !.m = notFound.m,
                                     !.p = NilParams]]
           ELSE req' = [req EXCEPT ![q] =
                           [@ EXCEPT !.pc = "done",
                                     !.body = <<"404 page not found">>,
                                     !.outcome = "returned"]]
    /\ UNCHANGED <<newVars, cfgVars, routeVars, cxVars>>

\* a faulty wrapper that keeps the context maker's error and goes on to
\* the handler all the same
AfterMakeContextGoesOn(q, res, called) ==
    LET merged == WithParams(res.ctx, req[q].p)
    IN  req' = [req EXCEPT ![q] =
                   [@ EXCEPT !.pc = "handler",
                             !.ctx = merged,
                             !.err = res.err,
                             !.calls = @ \o called
                                         \o <<Call("WithParams", res.ctx, Nil, merged, Nil)>>]]

\* ctx, err := m.makeContext(r); on an error the wrapper goes on to the
\* error handler, otherwise ctx = WithParams(ctx, p) and on to the handler
AfterMakeContext(q, res, called) ==
    IF res.err # Nil
    THEN req' = [req EXCEPT ![q] =
                    [@ EXCEPT !.pc = "errorHandler",
                              !.ctx = res.ctx,
                              !.err = res.err,
                              !.calls = @ \o called]]
    ELSE LET merged == WithParams(res.ctx, req[q].p)
         IN  req' = [req EXCEPT ![q] =
                        [@ EXCEPT !.pc = "handler",
                                  !.ctx = merged,
                                  !.calls = @ \o called
                                              \o <<Call("WithParams", res.ctx, Nil, merged, Nil)>>]]

\* the wrapper from its entry up to the call of the handler
CallContextMaker(q) ==
    /\ req[q].pc = "makeContext"
    /\ \/ /\ ReceiverOf(q).contextMaker = Nil
          /\ AfterMakeContext(q, makeContext(ReceiverOf(q), NoReturn), <<>>)
       \/ /\ ReceiverOf(q).contextMaker # Nil
          /\ \E out \in CMReturns :
                AfterMakeContext(q, makeContext(ReceiverOf(q), out),
                                 <<Call("contextMaker", NilCtx, Nil, out.ctx, out.err)>>)
       \/ /\ ReceiverOf(q).contextMaker # Nil
          /\ \E v \in PanicVals :
                req' = [req EXCEPT ![q] =
                           [@ EXCEPT !.pc = "deferred",
                                     !.panic = [origin |-> "contextMaker", v |-> v],
                                     !.calls = Append(@, Call("contextMaker", NilCtx, Nil,
                                                              NilCtx, v))]]
    /\ UNCHANGED <<newVars, cfgVars, routeVars, cxVars>>

\* a faulty adapter that hands an error on to the wrapper
AdaptedReturnErr(h) == "e1"

\* `return nil` of the Handler built by HTTPHandler and HTTPHandlerFunc
AdaptedReturn(h) == Nil

\* What calling the handler h with ctx does: a Handler of the application
\* returns nil, returns an error, or panics; a Handler built by HTTPHandler
\* or HTTPHandlerFunc calls the plain handler with w and r, which returns or
\* panics, and then returns nil.
HandlerOutcomes(h, ctx) ==
    IF h.adapter = "none"
    THEN {[ret |-> e, panicked |-> FALSE,
           calls |-> <<Call("handler", ctx, h.name, NilCtx, e)>>] : e \in HandlerReturns}
         \cup
         {[ret |-> v, panicked |-> TRUE,
           calls |-> <<Call("handler", ctx, h.name, NilCtx, v)>>] : v \in PanicVals}
    ELSE {[ret |-> AdaptedReturn(h), panicked |-> FALSE,
           calls |-> <<Call("handler", ctx, h.name, NilCtx, AdaptedReturn(h)),
                       Call("plain", NilCtx, h.name, NilCtx, Nil)>>]}
         \cup
         {[ret |-> v, panicked |-> TRUE,
           calls |-> <<Call("handler", ctx, h.name, NilCtx, v),
                       Call("plain", NilCtx, h.name, NilCtx, v)>>] : v \in PanicVals}

\* a faulty wrapper that calls the error handler whatever the handler
\* returned
AfterHandlerUnchecked(q, out) ==
    LET ran == [req[q] EXCEPT !.calls = @ \o out.calls,
                              !.body = Append(@, req[q].handler.name)]
    IN  IF out.panicked
        THEN [ran EXCEPT !.pc = "deferred",
                         !.panic = [origin |-> "handler", v |-> out.ret]]
        ELSE [ran EXCEPT !.pc = "errorHandler", !.err = out.ret]

\* if err := handler(ctx, w, r); err != nil { m.errorHandler(..); return }
\* the request after the handler has written its response and returned or
\* panicked
AfterHandler(q, out) ==
    LET ran == [req[q] EXCEPT !.calls = @ \o out.calls,
                              !.body = Append(@, req[q].handler.name)]
    IN  IF out.panicked
        THEN [ran EXCEPT !.pc = "deferred",
                         !.panic = [origin |-> "handler", v |-> out.ret]]
        ELSE IF out.ret # Nil
        THEN [ran EXCEPT !.pc = "errorHandler", !.err = out.ret]
        ELSE [ran EXCEPT !.pc = "deferred"]

\* err := handler(ctx, w, r): the handler writes its response, then returns
\* nil, returns an error, or panics
CallHandler(q) ==
    /\ req[q].pc = "handler"
    /\ \E out \in HandlerOutcomes(req[q].handler, req[q].ctx) :
          req' = [req EXCEPT ![q] = AfterHandler(q, out)]
    /\ UNCHANGED <<newVars, cfgVars, routeVars, cxVars>>

\* m.errorHandler(ctx, w, r, err); return.  Calling the nil func value of a
\* mux without an error handler is a runtime panic.
CallErrorHandler(q) ==
    /\ req[q].pc = "errorHandler"
    /\ \/ /\ ReceiverOf(q).errorHandler = Nil
          /\ req' = [req EXCEPT ![q] =
                        [@ EXCEPT !.pc = "deferred",
                                  !.panic = [origin |-> "wrap", v |-> NilFuncPanic]]]
       \/ /\ ReceiverOf(q).errorHandler # Nil
          /\ LET ran(ret) ==
                     [req[q] EXCEPT
                         !.calls = Append(@, Call("errorHandler", req[q].ctx, req[q].err,
                                                  NilCtx, ret))]
             IN  \/ req' = [req EXCEPT ![q] = [ran(Nil) EXCEPT !.pc = "deferred"]]
                 \/ \E v \in ErrorHandlerPanics :
                       req' = [req EXCEPT ![q] =
                                  [ran(v) EXCEPT
                                      !.pc = "deferred",
                                      !.panic = [origin |-> "errorHandler", v |-> v]]]
    /\ UNCHANGED <<newVars, cfgVars, routeVars, cxVars>>

\* a faulty recovery that loses the payload
recoverNothing(q) == Nil

\* a faulty recovery that reports a panic when there is none
recoverUnguarded(q) == IF req[q].panic = NoPanic THEN "p1" ELSE req[q].panic.v

\* recover(): the payload of the panic unwinding the wrapper, nil if none
recover(q) == req[q].panic.v

\* The wrapper returns or unwinds.  With a panic handler the deferred func
\* runs: it recovers the panic, if any, and calls the panic handler with
\* ctx, which returns or panics itself.  Without one a panic leaves the
\* wrapper.
RunDeferred(q, ctx) ==
    /\ req[q].pc = "deferred"
    /\ IF ReceiverOf(q).panicHandler # Nil
       THEN LET v == recover(q)
            IN  IF v # Nil
                THEN LET ran(ret) ==
                             [req[q] EXCEPT
                                 !.pc = "done",
                                 !.recovered = req[q].panic,
                                 !.calls = Append(@, Call("panicHandler", ctx, v, NilCtx, ret))]
                     IN  \/ req' = [req EXCEPT ![q] =
                                       [ran(Nil) EXCEPT !.panic = NoPanic,
                                                        !.outcome = "returned"]]
                         \/ \E v2 \in PanicHandlerPanics :
                               req' = [req EXCEPT ![q] =
                                          [ran(v2) EXCEPT
                                              !.panic = [origin |-> "panicHandler", v |-> v2],
                                              !.outcome = "panicked"]]
                ELSE req' = [req EXCEPT ![q] =
                                [@ EXCEPT !.pc = "done", !.outcome = "returned"]]
       ELSE req' = [req EXCEPT ![q] =
                       [@ EXCEPT !.pc = "done",
                                 !.outcome = IF req[q].panic = NoPanic
                                             THEN "returned" ELSE "panicked"]]
    /\ UNCHANGED <<newVars, cfgVars, routeVars, cxVars>>

\* a faulty exit that recovers every panic and calls nothing
DeferredSwallows(q) ==
    /\ req[q].pc = "deferred"
    /\ req' = [req EXCEPT ![q] =
                  [@ EXCEPT !.pc = "done", !.panic = NoPanic, !.outcome = "returned"]]
    /\ UNCHANGED <<newVars, cfgVars, routeVars, cxVars>>

\* a faulty deferred func that does not see the wrapper's ctx
DeferredFreshCtx(q) == RunDeferred(q, Background)

\* a faulty wrapper whose variable ctx is shared by the requests: the
\* deferred func may see what another request assigned
DeferredSharedCtx(q) ==
    \E o \in DOMAIN req :
        /\ o # q \/ DOMAIN req = {q}
        /\ RunDeferred(q, req[o].ctx)

\* the deferred func reads the wrapper's variable ctx when it runs
Deferred(q) == RunDeferred(q, req[q].ctx)

----------------------------------------------------------------------------

Next ==
    \/ MuxContextMaker
    \/ MuxErrorHandler
    \/ MuxPanicHandler
    \/ MuxNotFoundHandler
    \/ OptionFails
    \/ New
    \/ \E method \in Methods, path \in Patterns, handler \in Handlers :
          RegisterHandler(method, path, handler)
    \/ \E verb \in Verbs, path \in Patterns, handler \in Handlers :
          RegisterVerb(verb, path, handler)
    \/ \E q \in Reqs, method \in Methods, path \in Paths : ServeHTTP(q, method, path)
    \/ \E q \in Reqs : CallContextMaker(q)
    \/ \E q \in Reqs : CallHandler(q)
    \/ \E q \in Reqs : CallErrorHandler(q)
    \/ \E q \in Reqs : Deferred(q)

Spec == Init /\ [][Next]_vars

----------------------------------------------------------------------------
(* Reading a request's history *)

CallsOf(q, fn) == SelectSeq(req[q].calls, LAMBDA c : c.fn = fn)

Called(q, fn) == CallsOf(q, fn) # <<>>

\* the wrapper is past its call of the error handler, if it makes one
PastErrorHandler(q) == req[q].pc \in {"deferred", "done"}

Finished(q) == req[q].pc = "done"

\* the context maker was called and returned a non-nil error / panicked
ContextMakerFailed(q) ==
    Called(q, "contextMaker") /\ CallsOf(q, "contextMaker")[1].ret \in Errs

ContextMakerPanicked(q) ==
    Called(q, "contextMaker") /\ CallsOf(q, "contextMaker")[1].ret \in PanicVals

\* the handler was called and returned a non-nil error / panicked
HandlerFailed(q) == Called(q, "handler") /\ CallsOf(q, "handler")[1].ret \in Errs

HandlerPanicked(q) == Called(q, "handler") /\ CallsOf(q, "handler")[1].ret \in PanicVals

\* the position of the first call of fn in the history, 0 when there is none
RECURSIVE IndexFrom(_, _, _)
IndexFrom(calls, fn, i) ==
    IF i > Len(calls) THEN 0
    ELSE IF calls[i].fn = fn THEN i
    ELSE IndexFrom(calls, fn, i + 1)

IndexOf(q, fn) == IndexFrom(req[q].calls, fn, 1)

----------------------------------------------------------------------------
(* C1: on a mux with a context maker and an error handler, a request whose *)
(* context maker returns a non-nil error never reaches the registered      *)
(* handler, and the error handler is called, once, with that very error.   *)
C1_ContextMakerErrorSkipsHandler ==
    \A q \in Reqs :
        (contextMaker # Nil /\ errorHandler # Nil /\ ContextMakerFailed(q)) =>
            /\ ~Called(q, "handler")
            /\ req[q].err = CallsOf(q, "contextMaker")[1].ret
            /\ PastErrorHandler(q) =>
                  /\ Len(CallsOf(q, "errorHandler")) = 1
                  /\ CallsOf(q, "errorHandler")[1].arg = CallsOf(q, "contextMaker")[1].ret

\* a request on a registered route whose context maker failed has finished
C1_Witness ==
    \E q \in Reqs :
        /\ Finished(q)
        /\ req[q].route # NoRoute
        /\ ContextMakerFailed(q)
        /\ Called(q, "errorHandler")

----------------------------------------------------------------------------
(* C2: whenever the handler of a request has run and returned a non-nil    *)
(* error, the error handler is called after it, once, with that very error *)
(* and with the context the handler was given (path parameters included);  *)
(* the handler is called once and what it wrote to the response remains.   *)
C2_HandlerErrorReachesErrorHandler ==
    \A q \in Reqs :
        (HandlerFailed(q) /\ PastErrorHandler(q)) =>
            /\ Len(CallsOf(q, "handler")) = 1
            /\ Len(CallsOf(q, "errorHandler")) = 1
            /\ IndexOf(q, "handler") < IndexOf(q, "errorHandler")
            /\ CallsOf(q, "errorHandler")[1].arg = CallsOf(q, "handler")[1].ret
            /\ CallsOf(q, "errorHandler")[1].ctx = CallsOf(q, "handler")[1].ctx
            /\ ContextParams(CallsOf(q, "errorHandler")[1].ctx) = req[q].p
            /\ req[q].body = <<req[q].handler.name>>

----------------------------------------------------------------------------
(* C3: with a panic handler configured, a panic raised by the registered   *)
(* handler is recovered by the wrapper: the panic handler is called once,  *)
(* with the payload the handler panicked with, and that panic does not     *)
(* leave the wrapper.                                                      *)
C3_HandlerPanicIsRecovered ==
    \A q \in Reqs :
        (panicHandler # Nil /\ HandlerPanicked(q) /\ Finished(q)) =>
            /\ Len(CallsOf(q, "panicHandler")) = 1
            /\ CallsOf(q, "panicHandler")[1].arg = CallsOf(q, "handler")[1].ret
            /\ req[q].panic.origin # "handler"
            /\ CallsOf(q, "panicHandler")[1].ret = Nil => req[q].outcome = "returned"

\* a request whose handler panicked has finished on a mux with a panic handler
C3_Witness ==
    \E q \in Reqs :
        /\ Finished(q)
        /\ panicHandler # Nil
        /\ HandlerPanicked(q)
        /\ req[q].outcome = "returned"

----------------------------------------------------------------------------
(* C4: without a panic handler, a panic raised by the context maker or by  *)
(* the registered handler leaves the wrapper with its payload, and neither *)
(* the error handler nor a panic handler is called for it.                 *)
C4_PanicPropagatesWithoutPanicHandler ==
    \A q \in Reqs :
        /\ (panicHandler = Nil /\ ContextMakerPanicked(q) /\ Finished(q)) =>
              /\ req[q].outcome = "panicked"
              /\ req[q].panic =
                     [origin |-> "contextMaker", v |-> CallsOf(q, "contextMaker")[1].ret]
              /\ ~Called(q, "errorHandler")
              /\ ~Called(q, "panicHandler")
              /\ ~Called(q, "handler")
        /\ (panicHandler = Nil /\ HandlerPanicked(q) /\ Finished(q)) =>
              /\ req[q].outcome = "panicked"
              /\ req[q].panic = [origin |-> "handler", v |-> CallsOf(q, "handler")[1].ret]
              /\ ~Called(q, "errorHandler")
              /\ ~Called(q, "panicHandler")

\* a request whose handler panicked has finished on a mux without a panic
\* handler but with an error handler
C4_Witness ==
    \E q \in Reqs :
        /\ Finished(q)
        /\ panicHandler = Nil
        /\ errorHandler # Nil
        /\ HandlerPanicked(q)

----------------------------------------------------------------------------
(* C5: on a mux without an error handler, a request whose context maker    *)
(* or handler returned an error does not panic: the default error          *)
(* behaviour answers "internal server error" and the wrapper returns.      *)
C5_DefaultErrorHandler ==
    \A q \in Reqs :
        (errorHandler = Nil /\ Finished(q)
            /\ (ContextMakerFailed(q) \/ HandlerFailed(q))) =>
            /\ req[q].outcome = "returned"
            /\ req[q].panic = NoPanic
            /\ req[q].recovered = NoPanic
            /\ \E i \in 1..Len(req[q].body) : req[q].body[i] = "internal server error"

----------------------------------------------------------------------------
(* C6: when the context maker fails, the error handler is given the empty  *)
(* context: it has no path parameters, although the router matched some,   *)
(* and none of the values of the context returned along with the error.    *)
C6_ErrorHandlerGetsEmptyContext ==
    \A q \in Reqs :
        (ContextMakerFailed(q) /\ Called(q, "errorHandler")) =>
            LET ctx == CallsOf(q, "errorHandler")[1].ctx
            IN  /\ ctx = Background
                /\ ContextParams(ctx) = NilParams
                /\ \A k \in CallerKeys : Value(ctx, k) = NoVal

\* the error handler was called for a request with path parameters whose
\* context maker returned a context with values along with the error
C6_Witness ==
    \E q \in Reqs :
        /\ ContextMakerFailed(q)
        /\ Called(q, "errorHandler")
        /\ req[q].p # NilParams
        /\ \E k \in CallerKeys : Value(CallsOf(q, "contextMaker")[1].rctx, k) # NoVal

----------------------------------------------------------------------------
(* C7, as stated: the panic handler is called only for panics raised by    *)
(* the context maker or by the registered handler; a panic raised          *)
(* elsewhere in the dispatch, such as in the error handler, never reaches  *)
(* it.  Stated of the muxes with an error handler, where the wrapper never *)
(* calls an unset one.                                                     *)
C7_OnlyMakerAndHandlerPanics ==
    \A q \in Reqs :
        (errorHandler # Nil /\ Called(q, "panicHandler")) =>
            req[q].recovered.origin \in {"contextMaker", "handler"}

(* C7, amended: the panic handler is called only for a panic raised inside *)
(* the wrapper: by the context maker, by the registered handler, or by the *)
(* wrapper's call of the error handler (the error handler panicking, or    *)
(* the call of an unset error handler); it is called at most once, with    *)
(* that panic's payload, and a panic raised by the panic handler itself    *)
(* leaves the wrapper without reaching the panic handler again.            *)
C7_OnlyWrapperPanics ==
    \A q \in Reqs :
        /\ Called(q, "panicHandler") =>
              /\ Len(CallsOf(q, "panicHandler")) = 1
              /\ req[q].recovered.origin \in
                     {"contextMaker", "handler", "errorHandler", "wrap"}
              /\ CallsOf(q, "panicHandler")[1].arg = req[q].recovered.v
        /\ req[q].panic.origin = "panicHandler" =>
              /\ req[q].outcome = "panicked"
              /\ Len(CallsOf(q, "panicHandler")) = 1

\* the panic handler was called for a panic of the error handler
C7_Witness ==
    \E q \in Reqs :
        /\ Finished(q)
        /\ Called(q, "panicHandler")
        /\ Called(q, "errorHandler")
        /\ req[q].recovered.origin = "errorHandler"

----------------------------------------------------------------------------
(* C8: the panic handler is given the value the wrapper's variable ctx     *)
(* held when the panic was raised: the nil context when the context maker  *)
(* panicked, and, when the handler panicked, the context the handler was   *)
(* given, which is the context maker's result (the empty context without a *)
(* context maker) extended with the path parameters.                       *)

\* the context makeContext returned on success
BaseCtx(q) ==
    IF Called(q, "contextMaker") THEN CallsOf(q, "contextMaker")[1].rctx ELSE Background

C8_PanicHandlerGetsCurrentContext ==
    \A q \in Reqs :
        Called(q, "panicHandler") =>
            LET ctx == CallsOf(q, "panicHandler")[1].ctx
            IN  /\ ctx = req[q].ctx
                /\ req[q].recovered.origin = "contextMaker" => ctx = NilCtx
                /\ req[q].recovered.origin = "handler" =>
                      /\ ctx = CallsOf(q, "handler")[1].ctx
                      /\ ~ctx.isNil
                      /\ ContextParams(ctx) = req[q].p
                      /\ \A k \in CallerKeys : Value(ctx, k) = Value(BaseCtx(q), k)

\* the panic handler was called for a panic of the handler of a request with
\* path parameters and a context with values from the context maker
C8_Witness ==
    \E q \in Reqs :
        /\ Called(q, "panicHandler")
        /\ req[q].recovered.origin = "handler"
        /\ req[q].p # NilParams
        /\ \E k \in CallerKeys : Value(BaseCtx(q), k) # NoVal

----------------------------------------------------------------------------
(* C9: within a request the context maker is called, once, before the path *)
(* parameters are merged, and the handler is called after both; the        *)
(* handler's context has every value of the context maker's context and    *)
(* the path parameters of the router; without a context maker it is the    *)
(* empty context extended with the path parameters.                        *)
C9_DispatchOrder ==
    \A q \in Reqs :
        Called(q, "handler") =>
            LET ctx == CallsOf(q, "handler")[1].ctx
                calls == req[q].calls
            IN  /\ IF contextMaker # Nil
                   THEN /\ calls[1].fn = "contextMaker"
                        /\ calls[2].fn = "WithParams"
                        /\ calls[3].fn = "handler"
                        /\ calls[2].ctx = calls[1].rctx
                   ELSE /\ calls[1].fn = "WithParams"
                        /\ calls[2].fn = "handler"
                        /\ ctx.chain = <<[key |-> contextParamsKey,
                                          val |-> ParamsVal(req[q].p)]>>
                /\ Len(CallsOf(q, "contextMaker")) <= 1
                /\ Len(CallsOf(q, "WithParams")) = 1
                /\ ctx = CallsOf(q, "WithParams")[1].rctx
                /\ ~ctx.isNil
                /\ ContextParams(ctx) = req[q].p
                /\ \A k \in CallerKeys : Value(ctx, k) = Value(BaseCtx(q), k)

\* the handler of a request with path parameters was called with a context
\* that has a value from the context maker
C9_Witness ==
    \E q \in Reqs :
        /\ Called(q, "handler")
        /\ contextMaker # Nil
        /\ req[q].p # NilParams
        /\ \E k \in CallerKeys : Value(CallsOf(q, "handler")[1].ctx, k) # NoVal

----------------------------------------------------------------------------
(* C10: registering with the method of Mux named after a verb gives the    *)
(* router the routes that Mux.Handler with that verb gives it, so every    *)
(* request is served the same way; and a request of any method, custom     *)
(* ones too, is served by the handler registered for its method and path.  *)

\* the router built when each registration is made through Mux.Handler
Generic == UNION {Handler({}, g.method, g.path, g.handler) : g \in registered}

C10_VerbMethodsAreHandler ==
    /\ \A method \in Methods, path \in Paths :
          Lookup(r, method, path) = Lookup(Generic, method, path)
    /\ \A q \in Reqs :
          req[q].route # NoRoute =>
              /\ Registration(req[q].route.method, req[q].route.path, req[q].handler)
                     \in registered
              /\ Called(q, "handler") => CallsOf(q, "handler")[1].arg = req[q].handler.name

\* a request has been served by the handler registered for its verb
C10_Witness ==
    \E q \in Reqs :
        /\ Finished(q)
        /\ req[q].route # NoRoute
        /\ req[q].route.method \in Verbs
        /\ req[q].body = <<req[q].handler.name>>

----------------------------------------------------------------------------
(* C12: New applies its options in order and stops at the first error.     *)

\* the fields of the mux that the options set
Config ==
    [contextMaker |-> contextMaker, errorHandler |-> errorHandler,
     panicHandler |-> panicHandler, notFound |-> notFound,
     redirectTrailingSlash |-> redirectTrailingSlash]

\* the zero-valued mux
ZeroConfig ==
    [contextMaker |-> Nil, errorHandler |-> Nil, panicHandler |-> Nil,
     notFound |-> NilHandle, redirectTrailingSlash |-> FALSE]

\* what one option makes of a mux
Applied(cfg, o) ==
    CASE o.kind = "MuxContextMaker" -> [cfg EXCEPT !.contextMaker = TheContextMaker]
      [] o.kind = "MuxErrorHandler" -> [cfg EXCEPT !.errorHandler = TheErrorHandler]
      [] o.kind = "MuxPanicHandler" -> [cfg EXCEPT !.panicHandler = ThePanicHandler]
      [] o.kind = "MuxNotFoundHandler" -> [cfg EXCEPT !.notFound = wrap(TheNotFound)]
      [] o.kind = "MuxRedirectTrailingSlash" -> [cfg EXCEPT !.redirectTrailingSlash = TRUE]
      [] OTHER -> cfg

\* what the first n options of a list make of the zero-valued mux, in order
RECURSIVE AppliedInOrder(_, _)
AppliedInOrder(os, n) ==
    IF n = 0 THEN ZeroConfig ELSE Applied(AppliedInOrder(os, n - 1), os[n])

\* none of the first n options returns an error
AllSucceed(os, n) == \A i \in 1..n : os[i].err = Nil

\* C12: every step of New applies the next option of the list to the mux the
\* earlier ones made, starting from the zero-valued mux; New returns the
\* mux, with a nil error, only when every option has been applied and none
\* returned an error; when an option returns an error New returns no mux
\* and that error, the options before it are the only ones applied, and
\* New takes no further step.
C12_NewAppliesOptionsInOrder ==
    [][/\ (phase = "new" /\ phase' = "new")
            => /\ applied < Len(options)
               /\ options[applied + 1].err = Nil
               /\ applied' = applied + 1
               /\ Config = AppliedInOrder(options, applied)
               /\ Config' = AppliedInOrder(options, applied')
               /\ options' = options
       /\ (phase = "new" /\ phase' = "ready")
            => /\ applied = Len(options)
               /\ AllSucceed(options, Len(options))
               /\ Config' = AppliedInOrder(options, Len(options))
               /\ newErr' = Nil
       /\ (phase = "new" /\ phase' = "failed")
            => /\ AllSucceed(options, applied)
               /\ options[applied + 1].err \in Errs
               /\ newErr' = options[applied + 1].err
               /\ Config' = AppliedInOrder(options, applied)
       /\ phase = "failed" => UNCHANGED vars
       /\ phase = "ready" => (phase' = "ready" /\ UNCHANGED cfgVars /\ newErr' = Nil)
      ]_vars

\* New has returned no mux and the error of the third option, the first to
\* fail, although a later option fails with another error
C12_Witness ==
    /\ phase = "failed"
    /\ applied = 2
    /\ Len(options) = MaxOptions
    /\ newErr = "e2"
    /\ options[4].err = "e1"
    /\ contextMaker = TheContextMaker
    /\ errorHandler = TheErrorHandler

----------------------------------------------------------------------------
(* C11: the not-found handler *)

\* the request matched no route and the router called the NotFound func
\* installed by MuxNotFoundHandler
NotFoundDispatch(q) ==
    /\ req[q].pc # "idle"
    /\ req[q].route = NoRoute
    /\ req[q].handler = TheNotFound

\* C11: a finished request that matched no route on a mux with a not-found
\* handler went through the wrapper with nil parameters: the context maker,
\* when there is one, was called first; when it returned an error the
\* not-found handler was not called and the error handler was called with
\* that error; when it succeeded the not-found handler was called exactly
\* once, with a context carrying nil parameters; an error the not-found
\* handler returned was passed to the error handler; a panic it raised was
\* passed to the panic handler when there is one.
C11_NotFoundThroughWrapper ==
    \A q \in Reqs :
        (NotFoundDispatch(q) /\ Finished(q)) =>
            /\ req[q].p = NilParams
            /\ contextMaker # Nil => req[q].calls[1].fn = "contextMaker"
            /\ Len(CallsOf(q, "handler")) <= 1
            /\ ContextMakerFailed(q) =>
                  /\ ~Called(q, "handler")
                  /\ Len(CallsOf(q, "errorHandler")) = 1
                  /\ CallsOf(q, "errorHandler")[1].arg = CallsOf(q, "contextMaker")[1].ret
            /\ ~(ContextMakerFailed(q) \/ ContextMakerPanicked(q)) =>
                  /\ Len(CallsOf(q, "handler")) = 1
                  /\ CallsOf(q, "handler")[1].arg = TheNotFound.name
                  /\ ContextParams(CallsOf(q, "handler")[1].ctx) = NilParams
            /\ HandlerFailed(q) =>
                  /\ Len(CallsOf(q, "errorHandler")) = 1
                  /\ CallsOf(q, "errorHandler")[1].arg = CallsOf(q, "handler")[1].ret
                  /\ CallsOf(q, "errorHandler")[1].ctx = CallsOf(q, "handler")[1].ctx
            /\ (HandlerPanicked(q) /\ panicHandler # Nil) =>
                  /\ Len(CallsOf(q, "panicHandler")) = 1
                  /\ CallsOf(q, "panicHandler")[1].arg = CallsOf(q, "handler")[1].ret

----------------------------------------------------------------------------
(* The context helpers on their own: an application derives contexts from  *)
(* context.Background() with context.WithValue under its own keys and with *)
(* WithParams, in any order.                                               *)

\* the parameters an application passes to WithParams: the nil slice, the
\* empty slice, and slices that repeat a name
ParamItems == {[Key |-> "id", Value |-> "42"], [Key |-> "id", Value |-> "7"]}
ParamChoices ==
    {NilParams} \cup {Params(items) : items \in UNION {[1..n -> ParamItems] : n \in 0..MaxParams}}

\* the values an application stores under its own keys
CallerVals == {IntVal(1), IntVal(2)}

InitCtx ==
    /\ phase = "ready"
    /\ options = <<>>
    /\ applied = 0
    /\ newErr = Nil
    /\ contextMaker = Nil
    /\ errorHandler = Nil
    /\ panicHandler = Nil
    /\ notFound = NilHandle
    /\ redirectTrailingSlash = FALSE
    /\ r = {}
    /\ registered = {}
    /\ req = [q \in Reqs |-> IdleReq]
    /\ cx = Background
    /\ cxParent = NilCtx
    /\ cxLast = NoDerivation
    /\ pipe = NoChain

\* cx = context.WithValue(cx, key, val) in the application
CtxWithValue(key, val) ==
    /\ Len(cx.chain) < MaxChain
    /\ cx' = WithValue(cx, key, val)
    /\ cxParent' = cx
    /\ cxLast' = [op |-> "WithValue", key |-> key, val |-> val]
    /\ UNCHANGED <<newVars, cfgVars, routeVars, req, pipe>>

\* cx = WithParams(cx, p)
CtxWithParams(p) ==
    /\ Len(cx.chain) < MaxChain
    /\ cx' = WithParams(cx, p)
    /\ cxParent' = cx
    /\ cxLast' = [op |-> "WithParams", key |-> contextParamsKey, val |-> ParamsVal(p)]
    /\ UNCHANGED <<newVars, cfgVars, routeVars, req, pipe>>

NextCtx ==
    \/ \E key \in CallerKeys, val \in CallerVals : CtxWithValue(key, val)
    \/ \E p \in ParamChoices : CtxWithParams(p)

SpecCtx == InitCtx /\ [][NextCtx]_vars

\* the newest application of WithParams on the way to ctx, 0 if none
RECURSIVE LastAttached(_, _)
LastAttached(chain, i) ==
    IF i = 0 THEN 0
    ELSE IF chain[i].key = contextParamsKey THEN i
    ELSE LastAttached(chain, i - 1)

----------------------------------------------------------------------------
(* C13: ContextParams reads back exactly the parameters the newest         *)
(* WithParams on the way to a context was given (the nil slice, the empty  *)
(* slice, repeated names and all), whatever context they were attached to  *)
(* and whatever the application stored under its own keys afterwards; on a *)
(* context that never had parameters attached it returns the nil Params.   *)
C13_ParamsRoundTrip ==
    /\ cxLast.op = "WithParams" => ContextParams(cx) = cxLast.val.params
    /\ LET i == LastAttached(cx.chain, Len(cx.chain))
       IN  IF i = 0
           THEN ContextParams(cx) = NilParams
           ELSE ContextParams(cx) = cx.chain[i].val.params

\* the empty, non-nil Params were attached to a context that already
\* carried other parameters, and read back
C13_Witness ==
    /\ cxLast.op = "WithParams"
    /\ cxLast.val.params = Params(<<>>)
    /\ ContextParams(cxParent) \notin {NilParams, Params(<<>>)}
    /\ ContextParams(cx) = Params(<<>>)

----------------------------------------------------------------------------
(* C14: WithParams(C, P) is a new context that extends C by one binding,   *)
(* under the private key: every binding of C is still there, so looking up *)
(* any key an application can build gives in the new context what it gives *)
(* in C, and no such key is the private key.                               *)
C14_WithParamsAppendOnly ==
    cxLast.op = "WithParams" =>
        /\ cx # cxParent
        /\ Len(cx.chain) = Len(cxParent.chain) + 1
        /\ SubSeq(cx.chain, 1, Len(cxParent.chain)) = cxParent.chain
        /\ \A k \in CallerKeys :
              /\ k # contextParamsKey
              /\ Value(cx, k) = Value(cxParent, k)

\* parameters were attached to a context in which the application had bound
\* the int key 0, and that binding is still read
C14_Witness ==
    /\ cxLast.op = "WithParams"
    /\ Value(cxParent, [type |-> "int", v |-> 0]) = IntVal(2)
    /\ Value(cx, [type |-> "int", v |-> 0]) = IntVal(2)
    /\ ContextParams(cx) # NilParams

----------------------------------------------------------------------------
(* Trailing-slash redirection: a mux built with any of                     *)
(* MuxRedirectTrailingSlash, MuxNotFoundHandler, MuxContextMaker and       *)
(* MuxErrorHandler, with routes whose patterns end with and without a      *)
(* slash, asked for paths in both forms.                                   *)

RedirectOptionKinds ==
    {Option("MuxRedirectTrailingSlash"), Option("MuxNotFoundHandler"),
     Option("MuxContextMaker"), Option("MuxErrorHandler")}

RedirectMethods == {"GET", "POST"}
RedirectPatterns == {"/items/:id", "/foo/"}
RedirectPaths == {"/items/42", "/items/42/", "/foo", "/foo/", "/missing"}

InitRedirect ==
    /\ InitWith(RedirectOptionKinds)
    /\ req = [q \in Reqs |-> IdleReq]

NextRedirect ==
    \/ MuxRedirectTrailingSlash
    \/ MuxNotFoundHandler
    \/ MuxContextMaker
    \/ MuxErrorHandler
    \/ New
    \/ \E method \in RedirectMethods, path \in RedirectPatterns, handler \in Handlers :
          RegisterHandler(method, path, handler)
    \/ \E verb \in RedirectMethods, path \in RedirectPatterns, handler \in Handlers :
          RegisterVerb(verb, path, handler)
    \/ \E q \in Reqs, method \in RedirectMethods, path \in RedirectPaths :
          ServeHTTP(q, method, path)
    \/ \E q \in Reqs : CallContextMaker(q)
    \/ \E q \in Reqs : CallHandler(q)
    \/ \E q \in Reqs : CallErrorHandler(q)
    \/ \E q \in Reqs : Deferred(q)

SpecRedirect == InitRedirect /\ [][NextRedirect]_vars

\* the router answered the request with a redirect
Redirected(q) == req[q].pc = "done" /\ req[q].code # 0

----------------------------------------------------------------------------
(* C15: the option MuxRedirectTrailingSlash enables the router's           *)
(* redirection; with it enabled, serving a request whose path matches no   *)
(* route of its method while the other variant of the path (trailing slash *)
(* added or stripped) has one answers 301 with that variant as Location    *)
(* and ends the request there: none of the context maker, a handler, the   *)
(* not-found handler and the error handler is called for it, then or       *)
(* later.                                                                  *)
C15_TrailingSlashRedirect ==
    /\ [][(phase = "new" /\ applied' = applied + 1
              /\ options[applied + 1].kind = "MuxRedirectTrailingSlash")
            => redirectTrailingSlash']_vars
    /\ [][\A q \in Reqs, method \in RedirectMethods, path \in RedirectPaths :
            (/\ redirectTrailingSlash
             /\ Lookup(r, method, path) = {}
             /\ Lookup(r, method, TrailingSlashVariant(path)) # {}
             /\ ServeHTTP(q, method, path))
            => /\ req'[q].pc = "done"
               /\ req'[q].code = StatusMovedPermanently
               /\ req'[q].location = TrailingSlashVariant(path)
               /\ req'[q].calls = <<>>
               /\ req'[q].handler = NoHandler]_vars
    /\ [][\A q \in Reqs : Redirected(q) => req'[q] = req[q]]_vars
    /\ [](\A q \in Reqs : Redirected(q) =>
            /\ redirectTrailingSlash
            /\ req[q].calls = <<>>
            /\ req[q].body = <<>>
            /\ req[q].outcome = "returned")

\* with a context maker, an error handler and a not-found handler
\* configured, a request for /foo was redirected to the registered /foo/
C15_Witness ==
    \E q \in Reqs :
        /\ Redirected(q)
        /\ req[q].code = StatusMovedPermanently
        /\ req[q].location = "/foo/"
        /\ \E e \in r : e.path = "/foo/"
        /\ contextMaker # Nil
        /\ errorHandler # Nil
        /\ notFound # NilHandle
        /\ req[q].calls = <<>>

\* the same for a request for /items/42/, redirected to /items/42
C15_WitnessStripped ==
    \E q \in Reqs :
        /\ Redirected(q)
        /\ req[q].location = "/items/42"
        /\ notFound # NilHandle

----------------------------------------------------------------------------
(* C16: once the handler of a request has returned nil (the context maker, *)
(* if any, having succeeded before it), the wrapper calls neither the      *)
(* error handler nor the panic handler and returns normally, and the       *)
(* response holds what the handler wrote and nothing else.                 *)
C16_SuccessCallsNoHandler ==
    \A q \in Reqs :
        (Called(q, "handler") /\ CallsOf(q, "handler")[1].ret = Nil) =>
            /\ ~ContextMakerFailed(q)
            /\ ~ContextMakerPanicked(q)
            /\ Len(CallsOf(q, "handler")) = 1
            /\ ~Called(q, "errorHandler")
            /\ ~Called(q, "panicHandler")
            /\ req[q].pc \in {"deferred", "done"}
            /\ req[q].panic = NoPanic
            /\ req[q].err = Nil
            /\ req[q].body = <<req[q].handler.name>>
            /\ req[q].code = 0
            /\ Finished(q) => req[q].outcome = "returned"

\* a request on a mux with a context maker, an error handler and a panic
\* handler has finished after its handler returned nil
C16_Witness ==
    \E q \in Reqs :
        /\ Finished(q)
        /\ contextMaker # Nil
        /\ errorHandler # Nil
        /\ panicHandler # Nil
        /\ Called(q, "contextMaker")
        /\ Called(q, "handler")
        /\ CallsOf(q, "handler")[1].ret = Nil
        /\ req[q].route # NoRoute

----------------------------------------------------------------------------
(* Plain handlers: a mux on which every route is registered with a plain   *)
(* http.Handler or http.HandlerFunc adapted by HTTPHandler or              *)
(* HTTPHandlerFunc.                                                        *)

PlainOptionKinds ==
    {Option("MuxContextMaker"), Option("MuxErrorHandler"), Option("MuxPanicHandler")}

PlainMethods == {"GET", "FOO"}

\* the adapted plain handlers, one for each registration
PlainHandlers ==
    {HTTPHandler(HandlerNames[i]) : i \in 1..Len(HandlerNames)}
        \cup {HTTPHandlerFunc(HandlerNames[i]) : i \in 1..Len(HandlerNames)}

InitPlain ==
    /\ InitWith(PlainOptionKinds)
    /\ req = [q \in Reqs |-> IdleReq]

NextPlain ==
    \/ MuxContextMaker
    \/ MuxErrorHandler
    \/ MuxPanicHandler
    \/ New
    \/ \E method \in PlainMethods, path \in Patterns, handler \in PlainHandlers :
          RegisterHandler(method, path, handler)
    \/ \E verb \in PlainMethods \cap Verbs, path \in Patterns, handler \in PlainHandlers :
          RegisterVerb(verb, path, handler)
    \/ \E q \in Reqs, method \in PlainMethods, path \in Paths : ServeHTTP(q, method, path)
    \/ \E q \in Reqs : CallContextMaker(q)
    \/ \E q \in Reqs : CallHandler(q)
    \/ \E q \in Reqs : CallErrorHandler(q)
    \/ \E q \in Reqs : Deferred(q)

SpecPlain == InitPlain /\ [][NextPlain]_vars

\* the handler of the request is an adapted plain handler
Adapted(q) == req[q].handler.adapter \in {"HTTPHandler", "HTTPHandlerFunc"}

\* the plain handler was called and panicked
PlainPanicked(q) == Called(q, "plain") /\ CallsOf(q, "plain")[1].ret \in PanicVals

----------------------------------------------------------------------------
(* C17: whenever the Handler built by HTTPHandler or HTTPHandlerFunc has   *)
(* been called, the plain handler under it has been called exactly once,   *)
(* writing to the response of the same request; when the plain handler     *)
(* returned, the Handler returned a nil error, and in no case did it       *)
(* return an error: the error handler is called for such a request only    *)
(* when the context maker failed.                                          *)
C17_AdaptersReturnNil ==
    \A q \in Reqs :
        (Adapted(q) /\ Called(q, "handler")) =>
            /\ Len(CallsOf(q, "handler")) = 1
            /\ Len(CallsOf(q, "plain")) = 1
            /\ CallsOf(q, "plain")[1].arg = req[q].handler.name
            /\ req[q].body = <<req[q].handler.name>>
            /\ IF PlainPanicked(q)
               THEN CallsOf(q, "handler")[1].ret = CallsOf(q, "plain")[1].ret
               ELSE CallsOf(q, "handler")[1].ret = Nil
            /\ ~HandlerFailed(q)
            /\ ~Called(q, "errorHandler")
            /\ req[q].err = Nil
            /\ req[q].pc \in {"deferred", "done"}

\* with an error handler configured, a request served by a plain handler
\* adapted with HTTPHandler, and one adapted with HTTPHandlerFunc, finished
\* normally
C17_Witness ==
    \E q \in Reqs :
        /\ Finished(q)
        /\ errorHandler # Nil
        /\ Adapted(q)
        /\ Called(q, "plain")
        /\ CallsOf(q, "plain")[1].ret = Nil
        /\ req[q].outcome = "returned"

----------------------------------------------------------------------------
(* C18: a finished request served by an adapted plain handler went through *)
(* the wrapper like any other: the context maker, when there is one, was   *)
(* called before the plain handler; when the context maker failed the      *)
(* plain handler was not called and the error handler was called with the  *)
(* context maker's error; a panic of the plain handler was passed to the   *)
(* panic handler when there is one.                                        *)
C18_AdaptedHandlerIsWrapped ==
    \A q \in Reqs :
        (Adapted(q) /\ Finished(q)) =>
            /\ (contextMaker # Nil /\ Called(q, "plain")) =>
                  /\ req[q].calls[1].fn = "contextMaker"
                  /\ IndexOf(q, "contextMaker") < IndexOf(q, "plain")
            /\ ContextMakerFailed(q) =>
                  /\ ~Called(q, "plain")
                  /\ ~Called(q, "handler")
                  /\ Len(CallsOf(q, "errorHandler")) = 1
                  /\ CallsOf(q, "errorHandler")[1].arg = CallsOf(q, "contextMaker")[1].ret
            /\ (PlainPanicked(q) /\ panicHandler # Nil) =>
                  /\ Len(CallsOf(q, "panicHandler")) = 1
                  /\ CallsOf(q, "panicHandler")[1].arg = CallsOf(q, "plain")[1].ret
                  /\ ContextParams(CallsOf(q, "panicHandler")[1].ctx) = req[q].p

----------------------------------------------------------------------------
(* Concurrent requests: net/http serves every request on a goroutine of    *)
(* its own, so the wrappers of several requests run interleaved on one     *)
(* mux.  The mux has a context maker, an error handler, a panic handler    *)
(* and two routes; the requests ask for the two routes in turn.            *)

ConcReqs == 1..NumReqs

ConcRoutes ==
    {Registration("GET", "/", Func(HandlerNames[1])),
     Registration("GET", "/items/:id", Func(HandlerNames[2]))}

\* the path request q asks for, the route that serves it and its parameters
ConcPath(q) == IF q % 2 = 1 THEN "/items/42" ELSE "/"
ConcRoute(q) == CHOOSE g \in ConcRoutes : Matches(g.path, ConcPath(q))
ConcParams(q) == PathParams(ConcRoute(q).path, ConcPath(q))

InitConc ==
    /\ phase = "ready"
    /\ options = <<>>
    /\ applied = 0
    /\ newErr = Nil
    /\ contextMaker = TheContextMaker
    /\ errorHandler = TheErrorHandler
    /\ panicHandler = ThePanicHandler
    /\ notFound = NilHandle
    /\ redirectTrailingSlash = FALSE
    /\ r = UNION {GET({}, g.path, g.handler) : g \in ConcRoutes}
    /\ registered = ConcRoutes
    /\ req = [q \in ConcReqs |-> IdleReq]
    /\ cx = NilCtx
    /\ cxParent = NilCtx
    /\ cxLast = NoDerivation
    /\ pipe = NoChain

\* what the callbacks do here: the context maker and the handlers fail
\* with one error and panic with one payload, and a failing context maker
\* returns no context
ConcCallbacks(q) ==
    \A i \in 1..Len(req[q].calls) :
        LET c == req[q].calls[i]
        IN  /\ c.ret \notin {"e2", "p2"}
            /\ (c.fn = "contextMaker" /\ c.ret # Nil) => c.rctx = NilCtx

NextConc ==
    \/ \E q \in ConcReqs : ServeHTTP(q, "GET", ConcPath(q))
    \/ \E q \in ConcReqs : CallContextMaker(q) /\ ConcCallbacks(q)'
    \/ \E q \in ConcReqs : CallHandler(q) /\ ConcCallbacks(q)'
    \/ \E q \in ConcReqs : CallErrorHandler(q)
    \/ \E q \in ConcReqs : Deferred(q)

SpecConc == InitConc /\ [][NextConc]_vars

\* the context the wrapper of request q has after its context maker
\* returned: what that call returned, with the parameters of q's own path
OwnContext(q) ==
    IF ContextMakerPanicked(q) THEN NilCtx
    ELSE IF ContextMakerFailed(q) THEN Background
    ELSE WithParams(CallsOf(q, "contextMaker")[1].rctx, ConcParams(q))

----------------------------------------------------------------------------
(* C19: however the wrappers of concurrent requests interleave, every      *)
(* callback called for a request is given the context built for that       *)
(* request: the context that request's own call of the context maker       *)
(* returned, carrying the parameters of that request's own path; the       *)
(* handler called is the one of its own route, the error and the panic     *)
(* payload passed on are its own; and every step of a wrapper changes the  *)
(* state of its own request only, never the mux or another request.        *)
C19_RequestsAreIsolated ==
    /\ [](\A q \in ConcReqs :
            /\ req[q].pc # "idle" =>
                  /\ req[q].p = ConcParams(q)
                  /\ req[q].handler = ConcRoute(q).handler
            /\ Len(CallsOf(q, "contextMaker")) <= 1
            /\ Called(q, "handler") =>
                  /\ CallsOf(q, "handler")[1].ctx = OwnContext(q)
                  /\ ContextParams(CallsOf(q, "handler")[1].ctx) = ConcParams(q)
                  /\ CallsOf(q, "handler")[1].arg = ConcRoute(q).handler.name
            /\ Called(q, "errorHandler") =>
                  /\ CallsOf(q, "errorHandler")[1].ctx = OwnContext(q)
                  /\ CallsOf(q, "errorHandler")[1].arg =
                        IF ContextMakerFailed(q)
                        THEN CallsOf(q, "contextMaker")[1].ret
                        ELSE CallsOf(q, "handler")[1].ret
            /\ Called(q, "panicHandler") =>
                  /\ CallsOf(q, "panicHandler")[1].ctx = OwnContext(q)
                  /\ CallsOf(q, "panicHandler")[1].arg = req[q].recovered.v
                  /\ req[q].recovered.v \in
                        {c.ret : c \in {req[q].calls[i] : i \in 1..Len(req[q].calls)}})
    /\ [][/\ UNCHANGED <<newVars, cfgVars, routeVars>>
          /\ \E q \in ConcReqs : \A o \in ConcReqs \ {q} : req'[o] = req[o]]_vars

\* two requests are inside their wrappers at the same time with different
\* contexts: the first is unwinding from a panic of its handler, the second
\* is about to call the error handler for an error of its own handler
C19_Witness ==
    /\ req[1].pc = "deferred"
    /\ HandlerPanicked(1)
    /\ req[2].pc = "errorHandler"
    /\ HandlerFailed(2)
    /\ req[1].ctx # req[2].ctx
    /\ ContextParams(req[1].ctx) # ContextParams(req[2].ctx)

\* both requests have finished, each with a call of the panic handler
C19_WitnessDone ==
    /\ \A q \in 1..2 : Finished(q) /\ Called(q, "panicHandler")
    /\ CallsOf(1, "panicHandler")[1].ctx # CallsOf(2, "panicHandler")[1].ctx

----------------------------------------------------------------------------
(* C20: in one dispatch the context maker, the handler, the error handler  *)
(* and the panic handler are each called at most once; the error handler   *)
(* is called only when the context maker returned an error or the handler  *)
(* returned a non-nil error, with that error, and the two never both       *)
(* happen in one request: after an error of the context maker the handler  *)
(* is not called.                                                          *)
C20_EachCallbackAtMostOnce ==
    \A q \in Reqs :
        /\ \A fn \in {"contextMaker", "handler", "errorHandler", "panicHandler"} :
              Len(CallsOf(q, fn)) <= 1
        /\ Called(q, "errorHandler") =>
              /\ ContextMakerFailed(q) \/ HandlerFailed(q)
              /\ CallsOf(q, "errorHandler")[1].arg =
                    IF ContextMakerFailed(q)
                    THEN CallsOf(q, "contextMaker")[1].ret
                    ELSE CallsOf(q, "handler")[1].ret
        /\ ~(ContextMakerFailed(q) /\ HandlerFailed(q))
        /\ ContextMakerFailed(q) => ~Called(q, "handler")

\* a request has finished after all four callbacks were called once each:
\* the context maker succeeded, the handler returned an error, the error
\* handler panicked and the panic handler was called
C20_Witness ==
    \E q \in Reqs :
        /\ Finished(q)
        /\ \A fn \in {"contextMaker", "handler", "errorHandler", "panicHandler"} :
              Len(CallsOf(q, fn)) = 1
        /\ HandlerFailed(q)

\* a request has finished with the error handler called for an error of
\* the context maker
C20_WitnessContextMaker ==
    \E q \in Reqs :
        /\ Finished(q)
        /\ ContextMakerFailed(q)
        /\ Called(q, "errorHandler")
        /\ req[q].route # NoRoute

----------------------------------------------------------------------------
(* C21: MuxNotFoundHandler wraps the not-found handler while New is still  *)
(* applying options, before or after the other options in any order (Init *)
(* draws every list of options).  Whatever the order, a request that       *)
(* matches no route is dispatched with the callbacks of the mux as New     *)
(* returned it: its context maker is called exactly when the mux has one,  *)
(* an error goes to the error handler exactly when the mux has one (and to *)
(* the nil func value otherwise), and a panic goes to the panic handler    *)
(* exactly when the mux has one.                                           *)
C21_NotFoundReadsMuxAtRequestTime ==
    \A q \in Reqs :
        NotFoundDispatch(q) =>
            /\ ReceiverOf(q) = Callbacks
            /\ req[q].pc # "makeContext" =>
                  (Called(q, "contextMaker") <=> contextMaker # Nil)
            /\ (Finished(q) /\ (ContextMakerFailed(q) \/ HandlerFailed(q))) =>
                  IF errorHandler # Nil
                  THEN Len(CallsOf(q, "errorHandler")) = 1
                  ELSE /\ ~Called(q, "errorHandler")
                       /\ NilFuncPanic \in {req[q].panic.v, req[q].recovered.v}
            /\ Finished(q) =>
                  /\ Called(q, "panicHandler") <=>
                        (panicHandler # Nil /\ req[q].recovered # NoPanic)
                  /\ (panicHandler # Nil /\ (HandlerPanicked(q) \/ ContextMakerPanicked(q)))
                        => Called(q, "panicHandler")
                  /\ panicHandler = Nil => req[q].recovered = NoPanic

\* a request that matched no route has finished on a mux with all four
\* callbacks: the context maker succeeded, the not-found handler returned
\* an error, the error handler panicked and the panic handler was called
C21_Witness ==
    \E q \in Reqs :
        /\ NotFoundDispatch(q)
        /\ Finished(q)
        /\ Called(q, "contextMaker")
        /\ HandlerFailed(q)
        /\ Called(q, "errorHandler")
        /\ Called(q, "panicHandler")

----------------------------------------------------------------------------
(* ContextPipeChain (src/unnamed/part_000): an application builds a        *)
(* ContextPipe from a list of pipes and calls it with a context.  A pipe   *)
(* is a func of the application; what it returns is a function of the      *)
(* context it is given.                                                    *)

\* the pipes of the application: two that add a value and succeed, one that
\* returns (nil, err), and one that returns an extended context with its
\* error
Pipes ==
    {[op |-> "WithValue", key |-> [type |-> "int", v |-> 1], val |-> IntVal(2), err |-> Nil],
     [op |-> "WithValue", key |-> [type |-> "int", v |-> 0], val |-> IntVal(1), err |-> Nil],
     [op |-> "nil", key |-> [type |-> "int", v |-> 0], val |-> NoVal, err |-> "e1"],
     [op |-> "WithValue", key |-> [type |-> "int", v |-> 1], val |-> IntVal(1), err |-> "e2"]}

\* ctxNew, err := p(ctx, r)
PipeResult(p, ctx) ==
    IF p.op = "WithValue"
    THEN [ctx |-> WithValue(ctx, p.key, p.val), err |-> p.err]
    ELSE [ctx |-> NilCtx, err |-> p.err]

\* the contexts the chain is called with
PipeInputs == {Background, WithValue(Background, [type |-> "int", v |-> 0], IntVal(2))}

\* p := ContextPipeChain(pipes...); p(ctx, r) has been called
InitPipe ==
    /\ phase = "ready"
    /\ options = <<>>
    /\ applied = 0
    /\ newErr = Nil
    /\ contextMaker = Nil
    /\ errorHandler = Nil
    /\ panicHandler = Nil
    /\ notFound = NilHandle
    /\ redirectTrailingSlash = FALSE
    /\ r = {}
    /\ registered = {}
    /\ req = [q \in Reqs |-> IdleReq]
    /\ cx = NilCtx
    /\ cxParent = NilCtx
    /\ cxLast = NoDerivation
    /\ \E ps \in UNION {[1..n -> Pipes] : n \in 0..MaxPipes}, c \in PipeInputs :
          pipe = [NoChain EXCEPT !.pc = "loop", !.pipes = ps, !.input = c, !.ctx = c]

\* a faulty chain that returns what the failing pipe returned
ChainFailsWithNewCtx(ctx, out) == [ctx |-> out.ctx, err |-> out.err]

\* if err != nil { return ctx, err }
ChainFails(ctx, out) == [ctx |-> ctx, err |-> out.err]

\* one turn of `for _, p := range pipes`
PipeStep ==
    /\ pipe.pc = "loop"
    /\ pipe.i < Len(pipe.pipes)
    /\ LET p == pipe.pipes[pipe.i + 1]
           out == PipeResult(p, pipe.ctx)
           called == [pipe EXCEPT !.calls = Append(@, [pipe |-> p, in |-> pipe.ctx, out |-> out])]
       IN  IF out.err # Nil
           THEN pipe' = [called EXCEPT !.pc = "returned", !.res = ChainFails(pipe.ctx, out)]
           ELSE pipe' = [called EXCEPT !.ctx = out.ctx, !.i = pipe.i + 1]
    /\ UNCHANGED <<newVars, cfgVars, routeVars, req, cx, cxParent, cxLast>>

\* return ctx, nil after the loop
PipeReturn ==
    /\ pipe.pc = "loop"
    /\ pipe.i = Len(pipe.pipes)
    /\ pipe' = [pipe EXCEPT !.pc = "returned", !.res = [ctx |-> pipe.ctx, err |-> Nil]]
    /\ UNCHANGED <<newVars, cfgVars, routeVars, req, cx, cxParent, cxLast>>

NextPipe ==
    \/ PipeStep
    \/ PipeReturn

SpecPipe == InitPipe /\ [][NextPipe]_vars

----------------------------------------------------------------------------
(* C22: the pipes called so far are the first pipes of the list, in order, *)
(* each given the context the one before it returned (the first the input  *)
(* context), and none is called after one that failed.  When the chain has *)
(* returned: if a pipe failed, the result is that pipe's error with the    *)
(* context that pipe was given, not the one it returned; otherwise every   *)
(* pipe was called and the result is a nil error with the context the last *)
(* pipe returned, the input context when there is no pipe.                 *)
C22_PipeChainInOrder ==
    LET n == Len(pipe.calls)
    IN  /\ n <= Len(pipe.pipes)
        /\ \A j \in 1..n :
              /\ pipe.calls[j].pipe = pipe.pipes[j]
              /\ pipe.calls[j].in = IF j = 1 THEN pipe.input ELSE pipe.calls[j - 1].out.ctx
              /\ j < n => pipe.calls[j].out.err = Nil
        /\ pipe.pc = "returned" =>
              IF n > 0 /\ pipe.calls[n].out.err # Nil
              THEN /\ pipe.res.err = pipe.calls[n].out.err
                   /\ pipe.res.ctx = pipe.calls[n].in
              ELSE /\ n = Len(pipe.pipes)
                   /\ pipe.res.err = Nil
                   /\ pipe.res.ctx = IF n = 0 THEN pipe.input ELSE pipe.calls[n].out.ctx

\* the chain has returned the error of its second pipe, which returned an
\* extended context with the error, together with the context the first
\* pipe returned; a third pipe was not called
C22_Witness ==
    /\ pipe.pc = "returned"
    /\ Len(pipe.pipes) = 3
    /\ Len(pipe.calls) = 2
    /\ pipe.res.err = "e2"
    /\ pipe.calls[2].out.ctx # pipe.res.ctx
    /\ pipe.res.ctx = pipe.calls[1].out.ctx
    /\ pipe.res.ctx # pipe.input

\* a chain of three pipes has returned the context of the last and a nil
\* error
C22_WitnessSuccess ==
    /\ pipe.pc = "returned"
    /\ Len(pipe.calls) = 3
    /\ pipe.res.err = Nil
    /\ Len(pipe.res.ctx.chain) = Len(pipe.input.chain) + 3

\* a chain of no pipes has returned its input and a nil error
C22_WitnessEmpty ==
    /\ pipe.pc = "returned"
    /\ pipe.pipes = <<>>
    /\ pipe.res = [ctx |-> pipe.input, err |-> Nil]

=============================================================================
